---------------------------- MODULE Spec2Model ----------------------------
(***************************************************************************)
(* Model of the character-display driver src/lcd.c (CCS "LCD.C", pin       *)
(* access as configured by src/code1.c lines 6-12) together with the       *)
(* display controller it talks to, and of the control program              *)
(* src/code1.c that uses it.                                               *)
(*                                                                         *)
(* The driver functions are operators on a bus record                      *)
(*     [pin |-> the seven lines, dev |-> the controller, tr |-> the events *)
(*      of the current call]                                               *)
(* and every statement of the C code that touches a line appends one event *)
(* to tr.  delay_cycles(1) (one instruction cycle, 200 ns) is the only     *)
(* statement left out of the event trace.  The busy-wait loops of          *)
(* lcd_send_byte and lcd_getc are the only unbounded loops; they are the   *)
(* points at which a call is split into several actions.                   *)
(***************************************************************************)
EXTENDS Integers, Sequences, FiniteSets

(***************************************************************************)
(* Bounds of the model.                                                    *)
(***************************************************************************)
MaxCol == 2     \* valid columns 1..MaxCol are exercised
MaxOps == 3     \* calls made by the client after lcd_init
MaxPoll == 1    \* busy-flag reads answered "busy" in one busy-wait loop

(***************************************************************************)
(* Program constants.                                                      *)
(***************************************************************************)
LCD_TYPE == 2
LCD_LINE_TWO == 64
\* Mutant of LCD_INIT_STRING: entry-mode-set before clear-display.
LCD_INIT_STRING_clear_last == << 32 + (LCD_TYPE * 4), 12, 6, 1 >>

LCD_INIT_STRING == << 32 + (LCD_TYPE * 4), 12, 1, 6 >>

FF == 12        \* '\f'
NL == 10        \* '\n'
BS == 8         \* '\b'
Printable == {65, 66}                 \* 'A', 'B'
Chars == {FF, NL, BS} \cup Printable

(***************************************************************************)
(* 8-bit arithmetic of the C code.                                         *)
(***************************************************************************)
Byte(n) == n % 256

bit_test(n, b) == IF b = 0 THEN n % 2
                  ELSE IF b = 1 THEN (n \div 2) % 2
                  ELSE IF b = 2 THEN (n \div 4) % 2
                  ELSE IF b = 3 THEN (n \div 8) % 2
                  ELSE IF b = 4 THEN (n \div 16) % 2
                  ELSE IF b = 5 THEN (n \div 32) % 2
                  ELSE IF b = 6 THEN (n \div 64) % 2
                  ELSE (n \div 128) % 2

Pow2(b) == IF b = 0 THEN 1 ELSE IF b = 1 THEN 2 ELSE IF b = 2 THEN 4
           ELSE IF b = 3 THEN 8 ELSE IF b = 4 THEN 16 ELSE IF b = 5 THEN 32
           ELSE IF b = 6 THEN 64 ELSE 128

RECURSIVE OrBits(_, _, _)
OrBits(a, b, k) ==
    IF k > 7 THEN 0
    ELSE (IF bit_test(a, k) = 1 \/ bit_test(b, k) = 1 THEN Pow2(k) ELSE 0)
         + OrBits(a, b, k + 1)

\* Only({f(x) : x \in {e}}) is f(e) with e evaluated once.
Only(S) == CHOOSE x \in S : TRUE

BitOr(a, b) == Only({ OrBits(x[1], x[2], 0) : x \in {<< a, b >>} })

(***************************************************************************)
(* The display controller (HD44780 family).  It is hardware, outside the   *)
(* repository; it is modelled from the interface the specification         *)
(* describes: 4-bit multiplexed transfers, busy flag in bit 7 of a         *)
(* command-register read, address counter, 2 x 40 bytes of display RAM at  *)
(* 0x00.. and 0x40.., clear = blank everything and address 0.              *)
(***************************************************************************)
Blank == 32
DevSettleUs == 2000   \* every instruction has finished after this long

DDAddr == (0 .. 39) \cup (64 .. 103)

AcInc(a) == IF a = 39 THEN 64 ELSE IF a = 103 THEN 0 ELSE (a + 1) % 128
AcDec(a) == IF a = 0 THEN 103 ELSE IF a = 64 THEN 39 ELSE (a + 127) % 128

DevCommand(d, b) ==
    IF b >= 128 THEN [d EXCEPT !.ac = b % 128, !.cg = FALSE]
    ELSE IF b >= 64 THEN [d EXCEPT !.ac = b % 64, !.cg = TRUE]
    ELSE IF b >= 32 THEN [d EXCEPT !.mode = IF bit_test(b, 4) = 1 THEN 8 ELSE 4,
                                   !.phase = 0,
                                   !.lines = bit_test(b, 3) + 1,
                                   !.font = bit_test(b, 2)]
    ELSE IF b >= 16 THEN IF bit_test(b, 3) = 1 THEN d
                         ELSE [d EXCEPT !.ac = IF bit_test(b, 2) = 1
                                               THEN AcInc(@) ELSE AcDec(@)]
    ELSE IF b >= 8 THEN [d EXCEPT !.disp = bit_test(b, 2),
                                  !.cur = bit_test(b, 1),
                                  !.blink = bit_test(b, 0)]
    ELSE IF b >= 4 THEN [d EXCEPT !.id = bit_test(b, 1), !.sh = bit_test(b, 0)]
    ELSE IF b >= 2 THEN [d EXCEPT !.ac = 0, !.cg = FALSE]
    ELSE IF b = 1 THEN [d EXCEPT !.ddram = [a \in DDAddr |-> Blank],
                                 !.ac = 0, !.cg = FALSE, !.id = 1]
    ELSE d

DevWriteData(d, b) ==
    [d EXCEPT !.ddram = IF ~d.cg /\ d.ac \in DDAddr
                        THEN [@ EXCEPT ![d.ac] = b] ELSE @,
              !.ac = IF d.id = 1 THEN AcInc(@) ELSE AcDec(@)]

\* A complete byte has arrived.  A controller that is still executing the
\* previous instruction does not take it.
DevExec(d, rs, b) ==
    IF d.busy THEN d
    ELSE [(IF rs = 0 THEN DevCommand(d, b) ELSE DevWriteData(d, b))
            EXCEPT !.busy = TRUE]

\* Falling edge of Enable with read/write = write: the controller latches
\* DB7..DB4.  In 8-bit mode DB3..DB0 are not wired and read 0.
DevWriteNibble(d, rs, nib) ==
    IF d.mode = 8 THEN DevExec(d, rs, nib * 16)
    ELSE IF d.phase = 0 THEN [d EXCEPT !.phase = 1, !.hi = nib]
    ELSE DevExec([d EXCEPT !.phase = 0], rs, d.hi * 16 + nib)

DevReadValue(d, rs) ==
    IF rs = 0 THEN (IF d.busy THEN 128 ELSE 0) + d.ac
    ELSE IF ~d.cg /\ d.ac \in DDAddr THEN d.ddram[d.ac] ELSE 0

\* Rising edge of Enable with read/write = read: the controller drives
\* DB7..DB4 with the high nibble, and on the next pulse with the low one.
\* A completed data-register read steps the address counter.
DevReadPulse(d, rs) ==
    IF d.mode = 8 THEN [d EXCEPT !.dout = DevReadValue(d, rs) \div 16]
    ELSE IF d.phase = 0
         THEN [d EXCEPT !.phase = 1,
                        !.dout = DevReadValue(d, rs) \div 16,
                        !.lo = DevReadValue(d, rs) % 16]
    ELSE [d EXCEPT !.phase = 0, !.dout = d.lo,
                   !.ac = IF rs = 1
                          THEN (IF d.id = 1 THEN AcInc(@) ELSE AcDec(@)) ELSE @,
                   !.busy = IF rs = 1 THEN TRUE ELSE @]

\* Time passes.
DevDelay(d, us) == IF us >= DevSettleUs THEN [d EXCEPT !.busy = FALSE] ELSE d


(***************************************************************************)
(* State.                                                                  *)
(***************************************************************************)
VARIABLES
    pin,      \* the lines driven by the microcontroller: rs, rw, en, the
              \* direction of the three control pins (ctl) and of the four
              \* data pins (tris): 0 drive, 1 float; the output latches
              \* d[1..4] of the data pins LCD_DATA4..LCD_DATA7
    dev,      \* the display controller
    trace,    \* the line events of the call in progress
    pc,       \* where the driver stands
    op,       \* the call in progress: function, arguments, locals
    sb,       \* the lcd_send_byte frame: address, n, busy answers seen;
              \* from, to: where its events lie in trace (observer)
    inited,   \* lcd_init has returned
    entry,    \* the controller as it was when the call in progress began
    mon,      \* what the last completed calls were (observer)
    nops,     \* calls made after lcd_init
    app       \* the control program src/code1.c: its position, its globals,
              \* the lock and buzzer outputs, and what it has done (observer)

vars == << pin, dev, trace, pc, op, sb, inited, entry, mon, nops, app >>

Bus == [pin |-> pin, dev |-> dev, tr |-> trace]

Ev(s, e, v) ==
    Only({ [t EXCEPT !.tr = Append(@, [e |-> e, v |-> v, pin |-> t.pin])] :
           t \in {s} })

(***************************************************************************)
(* The compiler's pin primitives, with the controller wired to the pins.   *)
(***************************************************************************)
\* What the controller sees on DB4..DB7 when it latches: the latches of the
\* data pins when they drive, the pull-ups when they float.
LinesOut(p) == IF p.tris = 0 THEN p.d[1] + 2 * p.d[2] + 4 * p.d[3] + 8 * p.d[4]
               ELSE 15

\* Level of data pin k (1..4) as input() reads it.
LineIn(s, k) == IF s.pin.tris = 0 THEN s.pin.d[k]
                ELSE IF s.pin.rw = 1 /\ s.pin.en = 1
                     THEN bit_test(s.dev.dout, k - 1)
                ELSE 1

output_drive_data(s) == Ev([s EXCEPT !.pin.tris = 0], "tris", 0)

\* lcd_enable_tris(), lcd_rs_tris(), lcd_rw_tris().
output_drive_control(s) == Ev([s EXCEPT !.pin.ctl = 0], "ctl", 0)

output_float_data(s) == Ev([s EXCEPT !.pin.tris = 1], "tris", 1)

lcd_output_rs(s, x) == Ev([s EXCEPT !.pin.rs = x], "rs", x)

lcd_output_rw(s, x) == Ev([s EXCEPT !.pin.rw = x], "rw", x)

lcd_output_enable(s, x) ==
    Only({ LET d1 == IF t.pin.en = 0 /\ x = 1 /\ t.pin.rw = 1
                     THEN DevReadPulse(t.dev, t.pin.rs)
                     ELSE IF t.pin.en = 1 /\ x = 0 /\ t.pin.rw = 0
                     THEN DevWriteNibble(t.dev, t.pin.rs, LinesOut(t.pin))
                     ELSE t.dev
           IN Ev([t EXCEPT !.pin.en = x, !.dev = d1], "en", x) : t \in {s} })

delay_us(s, us) == Ev([s EXCEPT !.dev = DevDelay(@, us)], "delay", us)

delay_ms(s, ms) == delay_us(s, ms * 1000)

(***************************************************************************)
(* src/lcd.c                                                               *)
(***************************************************************************)
\* Mutant of lcd_read_nibble: the four data lines are taken in reverse order.
lcd_read_nibble_reversed(s) ==
    Only({ LineIn(t, 4) + 2 * LineIn(t, 3) + 4 * LineIn(t, 2) + 8 * LineIn(t, 1) :
           t \in {s} })

lcd_read_nibble(s) ==
    Only({ LineIn(t, 1) + 2 * LineIn(t, 2) + 4 * LineIn(t, 3) + 8 * LineIn(t, 4) :
           t \in {s} })

\* Mutant of lcd_read_byte: the data pins are left floating on return.
lcd_read_byte_no_restore(s) ==
    LET s1 == output_float_data(s)
        s2 == lcd_output_rw(s1, 1)
        s3 == lcd_output_enable(s2, 1)
        high == lcd_read_nibble(s3)
        s4 == Ev(s3, "in", high)
        s5 == lcd_output_enable(s4, 0)
        s6 == lcd_output_enable(s5, 1)
        s7 == delay_us(s6, 1)
        low == lcd_read_nibble(s7)
        s8 == Ev(s7, "in", low)
        s9 == lcd_output_enable(s8, 0)
    IN [bus |-> s9, val |-> BitOr(Byte(high * 16), low)]

lcd_read_byte(s) ==
    LET s1 == output_float_data(s)
        s2 == lcd_output_rw(s1, 1)
        s3 == lcd_output_enable(s2, 1)
        high == lcd_read_nibble(s3)
        s4 == Ev(s3, "in", high)
        s5 == lcd_output_enable(s4, 0)
        s6 == lcd_output_enable(s5, 1)
        s7 == delay_us(s6, 1)
        low == lcd_read_nibble(s7)
        s8 == Ev(s7, "in", low)
        s9 == lcd_output_enable(s8, 0)
        s10 == output_drive_data(s9)
    IN [bus |-> s10, val |-> BitOr(Byte(high * 16), low)]

lcd_send_nibble(s, n) ==
    LET s1 == Ev([s EXCEPT !.pin.d = << bit_test(n, 0), bit_test(n, 1),
                                        bit_test(n, 2), bit_test(n, 3) >>],
                 "data", n)
        s2 == lcd_output_enable(s1, 1)
        s3 == delay_us(s2, 2)
    IN lcd_output_enable(s3, 0)

\* lcd_send_byte, line 260: up to the busy-wait loop.
lcd_send_byte_enter(s) == lcd_output_rs(s, 0)

\* Mutant of lcd_busy: the wrong bit of the status byte is tested.
lcd_busy_bit6(val) == bit_test(val, 6) = 1

\* lcd_send_byte, line 261: the loop goes round again.
lcd_busy(val) == bit_test(val, 7) = 1

\* Mutant of lcd_send_byte_xmit: the low nibble goes first.
lcd_send_byte_xmit_low_first(s, address, n) ==
    LET s1 == lcd_output_rs(s, address)
        s2 == lcd_output_rw(s1, 0)
        s3 == lcd_output_enable(s2, 0)
        s4 == lcd_send_nibble(s3, n % 16)
    IN lcd_send_nibble(s4, n \div 16)

\* Mutant of lcd_send_byte_xmit: read/write is not set to write.
lcd_send_byte_xmit_no_rw(s, address, n) ==
    LET s1 == lcd_output_rs(s, address)
        s3 == lcd_output_enable(s1, 0)
        s4 == lcd_send_nibble(s3, n \div 16)
    IN lcd_send_nibble(s4, n % 16)

\* lcd_send_byte, lines 262-268: after the loop.
lcd_send_byte_xmit(s, address, n) ==
    LET s1 == lcd_output_rs(s, address)
        s2 == lcd_output_rw(s1, 0)
        s3 == lcd_output_enable(s2, 0)
        s4 == lcd_send_nibble(s3, n \div 16)
    IN lcd_send_nibble(s4, n % 16)

\* Mutant of WakeupPulses: one wake-up nibble too few.
WakeupPulses_two == 3 - 1

WakeupPulses == 3

RECURSIVE lcd_init_wakeup(_, _)
lcd_init_wakeup(s, i) ==
    IF i <= WakeupPulses
    THEN lcd_init_wakeup(delay_ms(lcd_send_nibble(s, 3), 5), i + 1)
    ELSE s

\* Mutant of lcd_init_begin: the power-on delay is missing.
lcd_init_begin_no_settle(s) ==
    LET s0 == output_drive_data(s)
        s1 == output_drive_control(s0)
        s2 == lcd_output_rs(s1, 0)
        s3 == lcd_output_rw(s2, 0)
        s4 == lcd_output_enable(s3, 0)
        s6 == lcd_init_wakeup(s4, 1)
    IN lcd_send_nibble(s6, 2)

\* lcd_init, lines 279-302: up to the loop over LCD_INIT_STRING.
lcd_init_begin(s) ==
    LET s0 == output_drive_data(s)
        s1 == output_drive_control(s0)
        s2 == lcd_output_rs(s1, 0)
        s3 == lcd_output_rw(s2, 0)
        s4 == lcd_output_enable(s3, 0)
        s5 == delay_ms(s4, 15)
        s6 == lcd_init_wakeup(s5, 1)
    IN lcd_send_nibble(s6, 2)

\* Mutant of lcd_gotoxy_byte: the column is taken as 0-based.
lcd_gotoxy_byte_zero_based(x, y) ==
    LET address == IF y # 1 THEN LCD_LINE_TWO ELSE 0
    IN BitOr(128, Byte(address + x))

\* lcd_gotoxy, lines 311-317: the byte handed to lcd_send_byte(0, .).
lcd_gotoxy_byte(x, y) ==
    LET address == IF y # 1 THEN LCD_LINE_TWO ELSE 0
    IN BitOr(128, Byte(address + x - 1))


(***************************************************************************)
(* src/code1.c: the control program.  A position of main is the number of  *)
(* the source line of the statement to execute next.                       *)
(***************************************************************************)
DATA_TRUNG == << 211, 77, 252, 39 >>     \* 0xD3, 0x4D, 0xFC, 0x27
DATA_HUY == << 115, 159, 111, 19 >>      \* 0x73, 0x9F, 0x6F, 0x13

\* Mutant of LoopHead: the loop goes back to lcd_init.
LoopHead_reinit == 79 - 13

\* while (true), line 77: the first statement of the loop body.
LoopHead == 79

MainLines == { 66, 67, 68, 69, 70, 71, 72, 73, 74, 75, 76, 79, 80, 83, 85, 91, 92, 93, 94, 95, 96, 100, 101, 102, 103, 104, 105, 107, 108, 112, 113, 114, 115, 116, 117, 121, 122, 123, 124, 125, 126, 128, 129, 134, 135, 136, 137, 138, 142 }

\* The statement at line l: its kind, its arguments x and y, the string s it
\* prints, and the line nx that follows it.
Stmt(l) ==
    CASE l = 66 -> [k |-> "init", x |-> 0, y |-> 0, nx |-> 67, s |-> << >>]
      [] l = 67 -> [k |-> "gotoxy", x |-> 0, y |-> 1, nx |-> 68, s |-> << >>]
      [] l = 68 -> [k |-> "printf", x |-> 0, y |-> 0, nx |-> 69,   \* "HE THONG MO CUA"
                   s |-> << 72, 69, 32, 84, 72, 79, 78, 71, 32, 77, 79, 32, 67, 85, 65 >>]
      [] l = 69 -> [k |-> "gotoxy", x |-> 6, y |-> 2, nx |-> 70, s |-> << >>]
      [] l = 70 -> [k |-> "printf", x |-> 0, y |-> 0, nx |-> 71,   \* "NHOM 10"
                   s |-> << 78, 72, 79, 77, 32, 49, 48 >>]
      [] l = 71 -> [k |-> "delay", x |-> 3000, y |-> 0, nx |-> 72, s |-> << >>]
      [] l = 72 -> [k |-> "printf", x |-> 0, y |-> 0, nx |-> 73,   \* "\f  Initializing"
                   s |-> << 12, 32, 32, 73, 110, 105, 116, 105, 97, 108, 105, 122, 105, 110, 103 >>]
      [] l = 73 -> [k |-> "reader_init", x |-> 0, y |-> 0, nx |-> 74, s |-> << >>]
      [] l = 74 -> [k |-> "delay", x |-> 100, y |-> 0, nx |-> 75, s |-> << >>]
      [] l = 75 -> [k |-> "printf", x |-> 0, y |-> 0, nx |-> 76,   \* "\n*****Done!******"
                   s |-> << 10, 42, 42, 42, 42, 42, 68, 111, 110, 101, 33, 42, 42, 42, 42, 42, 42 >>]
      [] l = 76 -> [k |-> "delay", x |-> 1000, y |-> 0, nx |-> LoopHead, s |-> << >>]
      [] l = 79 -> [k |-> "printf", x |-> 0, y |-> 0, nx |-> 80,   \* "\fXin moi quet the"
                   s |-> << 12, 88, 105, 110, 32, 109, 111, 105, 32, 113, 117, 101, 116, 32, 116, 104, 101 >>]
      [] l = 80 -> [k |-> "isCard", x |-> 0, y |-> 0, nx |-> 83, s |-> << >>]
      [] l = 83 -> [k |-> "ReadCardSerial", x |-> 0, y |-> 0, nx |-> 85, s |-> << >>]
      [] l = 85 -> [k |-> "match", x |-> 0, y |-> 0, nx |-> 88, s |-> << >>]
      [] l = 91 -> [k |-> "printf", x |-> 0, y |-> 0, nx |-> 92,   \* "\f Thanh Trung "
                   s |-> << 12, 32, 84, 104, 97, 110, 104, 32, 84, 114, 117, 110, 103, 32 >>]
      [] l = 92 -> [k |-> "gotoxy", x |-> 0, y |-> 2, nx |-> 93, s |-> << >>]
      [] l = 93 -> [k |-> "printf", x |-> 0, y |-> 0, nx |-> 94,   \* "xin moi ban vao"
                   s |-> << 120, 105, 110, 32, 109, 111, 105, 32, 98, 97, 110, 32, 118, 97, 111 >>]
      [] l = 94 -> [k |-> "bipbip", x |-> 3, y |-> 3, nx |-> 95, s |-> << >>]
      [] l = 95 -> [k |-> "delay", x |-> 100, y |-> 0, nx |-> 96, s |-> << >>]
      [] l = 96 -> [k |-> "output", x |-> 1, y |-> 0, nx |-> 107, s |-> << >>]
      [] l = 100 -> [k |-> "printf", x |-> 0, y |-> 0, nx |-> 101,   \* "\f Thanh Trung "
                   s |-> << 12, 32, 84, 104, 97, 110, 104, 32, 84, 114, 117, 110, 103, 32 >>]
      [] l = 101 -> [k |-> "gotoxy", x |-> 0, y |-> 2, nx |-> 102, s |-> << >>]
      [] l = 102 -> [k |-> "printf", x |-> 0, y |-> 0, nx |-> 103,   \* "Cua da duoc dong"
                   s |-> << 67, 117, 97, 32, 100, 97, 32, 100, 117, 111, 99, 32, 100, 111, 110, 103 >>]
      [] l = 103 -> [k |-> "bipbip", x |-> 3, y |-> 3, nx |-> 104, s |-> << >>]
      [] l = 104 -> [k |-> "delay", x |-> 100, y |-> 0, nx |-> 105, s |-> << >>]
      [] l = 105 -> [k |-> "output", x |-> 0, y |-> 0, nx |-> 107, s |-> << >>]
      [] l = 107 -> [k |-> "toggle", x |-> 0, y |-> 0, nx |-> 108, s |-> << >>]
      [] l = 108 -> [k |-> "delay", x |-> 1000, y |-> 0, nx |-> 142, s |-> << >>]
      [] l = 112 -> [k |-> "printf", x |-> 0, y |-> 0, nx |-> 113,   \* "\f    Thanh Huy    "
                   s |-> << 12, 32, 32, 32, 32, 84, 104, 97, 110, 104, 32, 72, 117, 121, 32, 32, 32, 32 >>]
      [] l = 113 -> [k |-> "gotoxy", x |-> 0, y |-> 2, nx |-> 114, s |-> << >>]
      [] l = 114 -> [k |-> "printf", x |-> 0, y |-> 0, nx |-> 115,   \* "xin moi ban vao"
                   s |-> << 120, 105, 110, 32, 109, 111, 105, 32, 98, 97, 110, 32, 118, 97, 111 >>]
      [] l = 115 -> [k |-> "bipbip", x |-> 3, y |-> 3, nx |-> 116, s |-> << >>]
      [] l = 116 -> [k |-> "delay", x |-> 100, y |-> 0, nx |-> 117, s |-> << >>]
      [] l = 117 -> [k |-> "output", x |-> 1, y |-> 0, nx |-> 128, s |-> << >>]
      [] l = 121 -> [k |-> "printf", x |-> 0, y |-> 0, nx |-> 122,   \* "\f    Thanh Huy    "
                   s |-> << 12, 32, 32, 32, 32, 84, 104, 97, 110, 104, 32, 72, 117, 121, 32, 32, 32, 32 >>]
      [] l = 122 -> [k |-> "gotoxy", x |-> 0, y |-> 2, nx |-> 123, s |-> << >>]
      [] l = 123 -> [k |-> "printf", x |-> 0, y |-> 0, nx |-> 124,   \* "Cua da duoc dong"
                   s |-> << 67, 117, 97, 32, 100, 97, 32, 100, 117, 111, 99, 32, 100, 111, 110, 103 >>]
      [] l = 124 -> [k |-> "bipbip", x |-> 3, y |-> 3, nx |-> 125, s |-> << >>]
      [] l = 125 -> [k |-> "delay", x |-> 100, y |-> 0, nx |-> 126, s |-> << >>]
      [] l = 126 -> [k |-> "output", x |-> 0, y |-> 0, nx |-> 128, s |-> << >>]
      [] l = 128 -> [k |-> "toggle", x |-> 0, y |-> 0, nx |-> 129, s |-> << >>]
      [] l = 129 -> [k |-> "delay", x |-> 1000, y |-> 0, nx |-> 142, s |-> << >>]
      [] l = 134 -> [k |-> "gotoxy", x |-> 0, y |-> 1, nx |-> 135, s |-> << >>]
      [] l = 135 -> [k |-> "printf", x |-> 0, y |-> 0, nx |-> 136,   \* "The khong hop le"
                   s |-> << 84, 104, 101, 32, 107, 104, 111, 110, 103, 32, 104, 111, 112, 32, 108, 101 >>]
      [] l = 136 -> [k |-> "gotoxy", x |-> 4, y |-> 2, nx |-> 137, s |-> << >>]
      [] l = 137 -> [k |-> "printf", x |-> 0, y |-> 0, nx |-> 138,   \* "WARNING!!!"
                   s |-> << 87, 65, 82, 78, 73, 78, 71, 33, 33, 33 >>]
      [] l = 138 -> [k |-> "bipbip", x |-> 10, y |-> 10, nx |-> 142, s |-> << >>]
      [] l = 142 -> [k |-> "halt", x |-> 0, y |-> 0, nx |-> LoopHead, s |-> << >>]

\* QUET_THE, lines 33-44: the loop from index i on; the value of THE_1 when
\* it is left.
RECURSIVE QUET_THE_for(_, _, _, _)
QUET_THE_for(DATA, UID, i, THE_1) ==
    IF i < 4
    THEN IF UID[i + 1] = DATA[i + 1]
         THEN QUET_THE_for(DATA, UID, i + 1, 1)
         ELSE 0
    ELSE THE_1

QUET_THE(DATA, UID, THE_1) == QUET_THE_for(DATA, UID, 0, THE_1)

\* bipbip, lines 51-54: the inner loop, on b = [c0, dev].
RECURSIVE bipbip_tone(_, _, _)
bipbip_tone(b, tieng, j) ==
    IF j < tieng
    THEN Only({ bipbip_tone(t, tieng, j + 1) :
                t \in {[c0 |-> 1, dev |-> DevDelay(b.dev, 1000)]} })
    ELSE b

RECURSIVE bipbip_for(_, _, _, _)
bipbip_for(b, hoi, tieng, i) ==
    IF i < hoi
    THEN Only({ bipbip_for(t, hoi, tieng, i + 1) :
                t \in {[c0 |-> 0,
                        dev |-> DevDelay(bipbip_tone(b, tieng, 0).dev, 10000)]} })
    ELSE b

bipbip(b, hoi, tieng) == bipbip_for(b, hoi, tieng, 0)

\* The identifiers a card may give: the two of the allow-list, each with two
\* different tails; each with one of its first four bytes changed; one that
\* begins like the first and ends like the second; all zero.
UIDs ==
    { DATA_TRUNG \o << 0, 0 >>, DATA_TRUNG \o << 85, 1 >>,
      DATA_HUY \o << 0, 0 >>, DATA_HUY \o << 85, 1 >>,
      << 211, 77, 252, 38, 0, 0 >>, << 114, 159, 111, 19, 0, 0 >>,
      << 211, 77, 111, 19, 0, 0 >>, << 0, 0, 0, 0, 0, 0 >> }

\* PIN_C1 and PIN_C0 are not driven before the first output_high or
\* output_low: level 2.
AppInit ==
    [pc |-> 66, k |-> 0, TAM |-> 0, THE_1 |-> 0, tt_1 |-> 0, tt_2 |-> 0,
     UID |-> << 0, 0, 0, 0, 0, 0 >>, c1 |-> 2, c0 |-> 2,
     inits |-> 0, scan |-> "none", was |-> [TAM |-> 0, c1 |-> 2]]

(***************************************************************************)
(* Initial states: power-up.  The data pins float, the controller is in    *)
(* any interface state: 8-bit, 4-bit expecting a high nibble, or 4-bit     *)
(* holding a high nibble h and expecting the low one; fresh or used.       *)
(***************************************************************************)
DevFresh ==
    [mode |-> 8, phase |-> 0, hi |-> 0, lo |-> 0, dout |-> 0, busy |-> FALSE,
     ac |-> 0, cg |-> FALSE, id |-> 1, sh |-> 0, disp |-> 0, cur |-> 0,
     blink |-> 0, lines |-> 1, font |-> 0, ddram |-> [a \in DDAddr |-> Blank]]

DevUsed ==
    [mode |-> 8, phase |-> 0, hi |-> 0, lo |-> 0, dout |-> 0, busy |-> TRUE,
     ac |-> 70, cg |-> TRUE, id |-> 0, sh |-> 1, disp |-> 0, cur |-> 1,
     blink |-> 1, lines |-> 1, font |-> 1, ddram |-> [a \in DDAddr |-> 65]]

DevPowerStates ==
    { [d EXCEPT !.mode = m[1], !.phase = m[2], !.hi = m[3]] :
        d \in {DevFresh, DevUsed},
        m \in {<<8, 0, 0>>, <<4, 0, 0>>} \cup {<<4, 1, h>> : h \in 0 .. 15} }

OpNone == [fn |-> "none", x |-> 0, y |-> 0, c |-> 0, i |-> 0, value |-> 0]
SbNone == [address |-> 0, n |-> 0, polls |-> 0, from |-> 0, to |-> 0]
MonNone == [k |-> "none", x |-> 0, y |-> 0, c |-> 0]

Init ==
    /\ pin = [rs |-> 0, rw |-> 0, en |-> 0, ctl |-> 1, tris |-> 1,
              d |-> <<0, 0, 0, 0>>]
    /\ dev \in DevPowerStates
    /\ trace = << >>
    /\ pc = "idle"
    /\ op = OpNone
    /\ sb = SbNone
    /\ inited = FALSE
    /\ entry = dev
    /\ mon = MonNone
    /\ nops = 0
    /\ app = AppInit

(***************************************************************************)
(* Inputs of the client.                                                   *)
(***************************************************************************)
ValidPos(x, y) == x \in 1 .. 40 /\ y \in {1, 2}

\* Valid positions, the end of line 2, and three invalid ones: column 0,
\* a column that reaches the RAM of line 2, row 3.
Positions == ((1 .. MaxCol) \X {1, 2})
             \cup {<<40, 2>>} \cup {<<0, 1>>, <<65, 1>>, <<1, 3>>}

(***************************************************************************)
(* Actions.                                                                *)
(***************************************************************************)
Commit(s) == pin' = s.pin /\ dev' = s.dev /\ trace' = s.tr

\* A call of lcd_send_byte(address, n) on bus s, up to its busy-wait loop.
Call_send_byte(s, address, n) ==
    /\ Commit(lcd_send_byte_enter(s))
    /\ sb' = [address |-> address, n |-> n, polls |-> 0,
              from |-> Len(s.tr), to |-> 0]
    /\ pc' = "sb_wait"

\* Mutant of lcd_putc_send: '\f' sends return-home instead of clear-display.
lcd_putc_send_ff_home(c) ==
    IF c = FF THEN << 0, 2 >>
    ELSE IF c = NL THEN << 0, lcd_gotoxy_byte(1, 2) >>
    ELSE IF c = BS THEN << 0, 16 >>
    ELSE << 1, c >>

\* Mutant of lcd_putc_send: the case for '\n' is missing.
lcd_putc_send_no_nl(c) ==
    IF c = FF THEN << 0, 1 >>
    ELSE IF c = BS THEN << 0, 16 >>
    ELSE << 1, c >>

\* Mutant of lcd_putc_send: the case for '\b' is missing.
lcd_putc_send_no_bs(c) ==
    IF c = FF THEN << 0, 1 >>
    ELSE IF c = NL THEN << 0, lcd_gotoxy_byte(1, 2) >>
    ELSE << 1, c >>

\* lcd_putc, lines 322-332: the register and the byte the switch hands to
\* lcd_send_byte ('\n' through lcd_gotoxy(1,2)).
lcd_putc_send(c) ==
    IF c = FF THEN << 0, 1 >>
    ELSE IF c = NL THEN << 0, lcd_gotoxy_byte(1, 2) >>
    ELSE IF c = BS THEN << 0, 16 >>
    ELSE << 1, c >>

\* lcd_init up to the busy-wait of its first lcd_send_byte.
lcd_init_call ==
    /\ pc = "idle" /\ ~inited
    /\ Call_send_byte(lcd_init_begin(Bus), 0, LCD_INIT_STRING[1])
    /\ op' = [OpNone EXCEPT !.fn = "lcd_init"]
    /\ entry' = dev
    /\ UNCHANGED << inited, mon, nops, app >>

\* lcd_init, lines 303-304: the next byte of LCD_INIT_STRING, or return.
lcd_init_loop ==
    /\ pc = "sb_ret" /\ op.fn = "lcd_init"
    /\ op' = [op EXCEPT !.i = @ + 1]
    /\ IF op.i + 1 <= 3
       THEN Call_send_byte(Bus, 0, LCD_INIT_STRING[op.i + 2])
       ELSE pc' = "ret" /\ UNCHANGED << pin, dev, trace, sb >>
    /\ UNCHANGED << inited, entry, mon, nops, app >>

lcd_gotoxy_call(x, y) ==
    /\ pc = "idle" /\ inited /\ nops < MaxOps
    /\ Call_send_byte(Bus, 0, lcd_gotoxy_byte(x, y))
    /\ op' = [OpNone EXCEPT !.fn = "lcd_gotoxy", !.x = x, !.y = y]
    /\ entry' = dev
    /\ nops' = nops + 1
    /\ UNCHANGED << inited, mon, app >>

lcd_gotoxy_ret ==
    /\ pc = "sb_ret" /\ op.fn = "lcd_gotoxy"
    /\ pc' = "ret"
    /\ UNCHANGED << pin, dev, trace, op, sb, inited, entry, mon, nops, app >>

\* lcd_putc, lines 322-332: the switch, up to the busy-wait of the
\* lcd_send_byte it leads to.
lcd_putc_call(c) ==
    /\ pc = "idle" /\ inited /\ nops < MaxOps
    /\ Call_send_byte(Bus, lcd_putc_send(c)[1], lcd_putc_send(c)[2])
    /\ op' = [OpNone EXCEPT !.fn = "lcd_putc", !.c = c]
    /\ entry' = dev
    /\ nops' = nops + 1
    /\ UNCHANGED << inited, mon, app >>

\* lcd_putc after its lcd_send_byte: delay_ms(2) for '\f', then break.
lcd_putc_ret ==
    /\ pc = "sb_ret" /\ op.fn = "lcd_putc"
    /\ Commit(IF op.c = FF THEN delay_ms(Bus, 2) ELSE Bus)
    /\ pc' = "ret"
    /\ UNCHANGED << op, sb, inited, entry, mon, nops, app >>

\* lcd_getc, line 340.
lcd_getc_call(x, y) ==
    /\ pc = "idle" /\ inited /\ nops < MaxOps
    /\ Call_send_byte(Bus, 0, lcd_gotoxy_byte(x, y))
    /\ op' = [OpNone EXCEPT !.fn = "lcd_getc", !.x = x, !.y = y]
    /\ entry' = dev
    /\ nops' = nops + 1
    /\ UNCHANGED << inited, mon, app >>

\* lcd_getc, line 341: one round of the busy-wait loop.
lcd_getc_wait ==
    /\ pc = "getc_wait"
    /\ LET r == lcd_read_byte(Bus)
       IN /\ lcd_busy(r.val) => op.i < MaxPoll
          /\ Commit(r.bus)
          /\ IF lcd_busy(r.val)
             THEN pc' = pc /\ op' = [op EXCEPT !.i = @ + 1]
             ELSE pc' = "getc_read" /\ op' = op
    /\ UNCHANGED << sb, inited, entry, mon, nops, app >>

\* Mutant of lcd_getc_read: register-select is left on the command register,
\* so the read returns the status byte.
lcd_getc_read_no_rs ==
    /\ pc = "getc_read"
    /\ LET r == lcd_read_byte(lcd_output_rs(Bus, 0))
       IN /\ Commit(lcd_output_rs(r.bus, 0))
          /\ op' = [op EXCEPT !.value = r.val]
    /\ pc' = "ret"
    /\ UNCHANGED << sb, inited, entry, mon, nops, app >>

\* Mutant of lcd_getc_read: register-select is left on the data register.
lcd_getc_read_rs_kept ==
    /\ pc = "getc_read"
    /\ LET r == lcd_read_byte(lcd_output_rs(Bus, 1))
       IN /\ Commit(r.bus)
          /\ op' = [op EXCEPT !.value = r.val]
    /\ pc' = "ret"
    /\ UNCHANGED << sb, inited, entry, mon, nops, app >>

\* lcd_getc, lines 342-346.
lcd_getc_read ==
    /\ pc = "getc_read"
    /\ LET r == lcd_read_byte(lcd_output_rs(Bus, 1))
       IN /\ Commit(lcd_output_rs(r.bus, 0))
          /\ op' = [op EXCEPT !.value = r.val]
    /\ pc' = "ret"
    /\ UNCHANGED << sb, inited, entry, mon, nops, app >>

\* lcd_send_byte, line 261: one round of the busy-wait loop.
send_byte_wait ==
    /\ pc = "sb_wait"
    /\ LET r == lcd_read_byte(Bus)
       IN /\ lcd_busy(r.val) => sb.polls < MaxPoll
          /\ Commit(r.bus)
          /\ IF lcd_busy(r.val)
             THEN pc' = pc /\ sb' = [sb EXCEPT !.polls = @ + 1]
             ELSE pc' = "sb_xmit" /\ sb' = sb
    /\ UNCHANGED << op, inited, entry, mon, nops, app >>

\* lcd_send_byte, lines 262-268, and the return to the caller.
send_byte_xmit ==
    /\ pc = "sb_xmit"
    /\ Commit(lcd_send_byte_xmit(Bus, sb.address, sb.n))
    /\ sb' = [sb EXCEPT !.to = Len(trace')]
    /\ pc' = IF op.fn = "lcd_getc" THEN "getc_wait" ELSE "sb_ret"
    /\ UNCHANGED << op, inited, entry, mon, nops, app >>

\* What the observer remembers once the call in progress has returned.
MonNext ==
    IF op.fn = "lcd_gotoxy" THEN [k |-> "at", x |-> op.x, y |-> op.y, c |-> 0]
    ELSE IF op.fn = "lcd_putc" /\ op.c = FF
         THEN [MonNone EXCEPT !.k = "clr", !.c = entry.ddram[0]]
    ELSE IF op.fn = "lcd_putc" /\ op.c \in Printable /\ mon.k = "at"
         THEN [mon EXCEPT !.k = "put", !.c = op.c]
    ELSE IF op.fn = "lcd_getc" /\ mon.k = "clr" THEN mon
    ELSE MonNone

\* The call in progress returns to the client.
Return ==
    /\ pc = "ret"
    /\ pc' = "idle"
    /\ op' = OpNone
    /\ sb' = SbNone
    /\ trace' = << >>
    /\ inited' = TRUE
    /\ mon' = MonNext
    /\ entry' = dev
    /\ UNCHANGED << pin, dev, nops, app >>

\* The controller finishes the instruction it is executing.
DeviceFinish ==
    /\ dev.busy
    /\ dev' = [dev EXCEPT !.busy = FALSE]
    /\ UNCHANGED << pin, trace, pc, op, sb, inited, entry, mon, nops, app >>

Next ==
    \/ lcd_init_call
    \/ lcd_init_loop
    \/ \E p \in Positions : lcd_gotoxy_call(p[1], p[2])
    \/ lcd_gotoxy_ret
    \/ \E c \in Chars : lcd_putc_call(c)
    \/ lcd_putc_ret
    \/ \E p \in Positions : lcd_getc_call(p[1], p[2])
    \/ lcd_getc_wait
    \/ lcd_getc_read
    \/ send_byte_wait
    \/ send_byte_xmit
    \/ Return
    \/ DeviceFinish

Spec == Init /\ [][Next]_vars

(***************************************************************************)
(* The busy-wait loop of lcd_send_byte without a bound on its rounds.  The *)
(* loop has no counter in the code; a round answered "busy" leaves the     *)
(* lines and the controller as the round before left them.  The observer   *)
(* records the first MaxPoll busy rounds of a loop and the round that ends *)
(* it; the rounds in between repeat the last recorded one.                 *)
(***************************************************************************)
\* Mutant of send_byte_poll: the loop gives up after MaxPoll busy answers.
send_byte_poll_timeout ==
    /\ pc = "sb_wait"
    /\ LET r == lcd_read_byte(Bus)
           more == lcd_busy(r.val) /\ sb.polls < MaxPoll
       IN /\ Commit(r.bus)
          /\ IF more
             THEN pc' = pc /\ sb' = [sb EXCEPT !.polls = @ + 1]
             ELSE pc' = "sb_xmit" /\ sb' = sb
    /\ UNCHANGED << op, inited, entry, mon, nops, app >>

\* lcd_send_byte, line 261: one round of the busy-wait loop.
send_byte_poll ==
    /\ pc = "sb_wait"
    /\ LET r == lcd_read_byte(Bus)
           seen == lcd_busy(r.val) /\ sb.polls >= MaxPoll
       IN /\ pin' = r.bus.pin /\ dev' = r.bus.dev
          /\ trace' = IF seen THEN trace ELSE r.bus.tr
          /\ IF lcd_busy(r.val)
             THEN pc' = pc /\ sb' = [sb EXCEPT !.polls = IF seen THEN @ ELSE @ + 1]
             ELSE pc' = "sb_xmit" /\ sb' = sb
    /\ UNCHANGED << op, inited, entry, mon, nops, app >>

\* lcd_init, then calls of lcd_putc; the controller finishes an instruction
\* when it finishes, or never.
NextBusy ==
    \/ lcd_init_call
    \/ lcd_init_loop
    \/ \E c \in Chars : lcd_putc_call(c)
    \/ lcd_putc_ret
    \/ send_byte_poll
    \/ send_byte_xmit
    \/ Return
    \/ DeviceFinish

\* The processor keeps executing the driver; nothing is assumed of the
\* controller.
SpecBusy ==
    /\ Init /\ [][NextBusy]_vars
    /\ WF_vars(send_byte_poll) /\ WF_vars(send_byte_xmit)



(***************************************************************************)
(* src/code1.c: main.  A statement is executed when the driver is idle; a  *)
(* call of the driver runs through the driver's own actions before the     *)
(* next statement.  The card reader, MFRC522, is a library outside the     *)
(* repository: whether a card is present, whether its identifier could be  *)
(* read, and the identifier are inputs.                                    *)
(***************************************************************************)
AtStmt(kind) == pc = "idle" /\ app.pc \in MainLines /\ Stmt(app.pc).k = kind

Goto(l) == [app EXCEPT !.pc = l]

DriverIdle == UNCHANGED << pin, dev, trace, pc, op, sb, inited, entry, mon, nops >>

\* Line 66.
main_lcd_init ==
    /\ AtStmt("init")
    /\ Call_send_byte(lcd_init_begin(Bus), 0, LCD_INIT_STRING[1])
    /\ op' = [OpNone EXCEPT !.fn = "lcd_init"]
    /\ entry' = dev
    /\ app' = [Goto(Stmt(app.pc).nx) EXCEPT !.inits = @ + 1]
    /\ UNCHANGED << inited, mon, nops >>

\* lcd_gotoxy(x, y) with the arguments written in main.
main_lcd_gotoxy ==
    /\ AtStmt("gotoxy")
    /\ Call_send_byte(Bus, 0, lcd_gotoxy_byte(Stmt(app.pc).x, Stmt(app.pc).y))
    /\ op' = [OpNone EXCEPT !.fn = "lcd_gotoxy",
                            !.x = Stmt(app.pc).x, !.y = Stmt(app.pc).y]
    /\ entry' = dev
    /\ app' = Goto(Stmt(app.pc).nx)
    /\ UNCHANGED << inited, mon, nops >>

\* printf(LCD_PUTC, s): lcd_putc for the next character of s.
main_printf ==
    /\ AtStmt("printf")
    /\ LET c == Stmt(app.pc).s[app.k + 1]
       IN /\ Call_send_byte(Bus, lcd_putc_send(c)[1], lcd_putc_send(c)[2])
          /\ op' = [OpNone EXCEPT !.fn = "lcd_putc", !.c = c]
    /\ entry' = dev
    /\ app' = IF app.k + 1 = Len(Stmt(app.pc).s)
              THEN [Goto(Stmt(app.pc).nx) EXCEPT !.k = 0]
              ELSE [app EXCEPT !.k = @ + 1]
    /\ UNCHANGED << inited, mon, nops >>

main_delay_ms ==
    /\ AtStmt("delay")
    /\ dev' = DevDelay(dev, Stmt(app.pc).x * 1000)
    /\ app' = Goto(Stmt(app.pc).nx)
    /\ UNCHANGED << pin, trace, pc, op, sb, inited, entry, mon, nops >>

\* Line 73.
main_MFRC522_Init ==
    /\ AtStmt("reader_init")
    /\ app' = Goto(Stmt(app.pc).nx)
    /\ DriverIdle

\* Line 80.
main_MFRC522_isCard ==
    /\ AtStmt("isCard")
    /\ \E present \in BOOLEAN :
          app' = [Goto(IF present THEN Stmt(app.pc).nx ELSE LoopHead)
                    EXCEPT !.scan = IF present THEN "card" ELSE "nocard",
                           !.was = [TAM |-> app.TAM, c1 |-> app.c1]]
    /\ DriverIdle

\* Line 83.
main_MFRC522_ReadCardSerial ==
    /\ AtStmt("ReadCardSerial")
    /\ \/ \E u \in UIDs : app' = [Goto(Stmt(app.pc).nx) EXCEPT !.UID = u]
       \/ app' = [Goto(142) EXCEPT !.scan = "unread"]
    /\ DriverIdle

\* Lines 85-132: the two comparisons and the branch.
main_QUET_THE ==
    /\ AtStmt("match")
    /\ LET t1 == QUET_THE(DATA_TRUNG, app.UID, app.THE_1)
           t2 == QUET_THE(DATA_HUY, app.UID, t1)
           to == IF t1 = 1 THEN (IF app.TAM = 0 THEN 91 ELSE 100)
                 ELSE IF t2 = 1 THEN (IF app.TAM = 0 THEN 112 ELSE 121)
                 ELSE 134
       IN app' = [Goto(to) EXCEPT !.tt_1 = t1, !.tt_2 = t2, !.THE_1 = t2]
    /\ DriverIdle

main_bipbip ==
    /\ AtStmt("bipbip")
    /\ LET b == bipbip([c0 |-> app.c0, dev |-> dev],
                       Stmt(app.pc).x, Stmt(app.pc).y)
       IN /\ dev' = b.dev
          /\ app' = [Goto(Stmt(app.pc).nx) EXCEPT !.c0 = b.c0]
    /\ UNCHANGED << pin, trace, pc, op, sb, inited, entry, mon, nops >>

\* Mutant of main_output_c1: the lock output is driven the other way round.
main_output_c1_inverted ==
    /\ AtStmt("output")
    /\ app' = [Goto(Stmt(app.pc).nx) EXCEPT !.c1 = 1 - Stmt(app.pc).x]
    /\ DriverIdle

\* output_High(PIN_c1), output_low(PIN_c1).
main_output_c1 ==
    /\ AtStmt("output")
    /\ app' = [Goto(Stmt(app.pc).nx) EXCEPT !.c1 = Stmt(app.pc).x]
    /\ DriverIdle

\* TAM =~ TAM on a one-bit variable.
main_toggle_TAM ==
    /\ AtStmt("toggle")
    /\ app' = [Goto(Stmt(app.pc).nx) EXCEPT !.TAM = 1 - @]
    /\ DriverIdle

\* Line 142.
main_MFRC522_Halt ==
    /\ AtStmt("halt")
    /\ app' = Goto(Stmt(app.pc).nx)
    /\ DriverIdle

NextMain ==
    \/ main_lcd_init
    \/ main_lcd_gotoxy
    \/ main_printf
    \/ main_delay_ms
    \/ main_MFRC522_Init
    \/ main_MFRC522_isCard
    \/ main_MFRC522_ReadCardSerial
    \/ main_QUET_THE
    \/ main_bipbip
    \/ main_output_c1
    \/ main_toggle_TAM
    \/ main_MFRC522_Halt
    \/ lcd_init_loop
    \/ lcd_gotoxy_ret
    \/ lcd_putc_ret
    \/ send_byte_wait
    \/ send_byte_xmit
    \/ Return
    \/ DeviceFinish

SpecMain == Init /\ [][NextMain]_vars


(***************************************************************************)
(* Reading the event trace.                                                *)
(***************************************************************************)
\* Enable rises with read/write = write: a nibble is strobed onto the bus.
IsStrobe(ev) == ev.e = "en" /\ ev.v = 1 /\ ev.pin.rw = 0

\* Enable rises with read/write = read and register-select = data.
IsDataReadPulse(ev) == ev.e = "en" /\ ev.v = 1 /\ ev.pin.rw = 1 /\ ev.pin.rs = 1

IsTransfer(ev) ==
    /\ ev.e = "en" /\ ev.v = 1
    /\ ev.pin.rw = 0 \/ (ev.pin.rw = 1 /\ ev.pin.rs = 1)

\* Event j is the second sample of a readByte made with register-select = 0
\* whose value has bit 7 = 0 (the first sample, four events earlier, is the
\* high nibble).
NotBusyReadAt(tr, j) ==
    /\ j > 4
    /\ tr[j].e = "in" /\ tr[j - 1].e = "delay"
    /\ tr[j - 4].e = "in" /\ tr[j - 5].e = "en"
    /\ tr[j].pin.rs = 0 /\ tr[j - 4].pin.rs = 0
    /\ tr[j - 4].v < 8

\* Before event k, and after event number from, a command-register read
\* returned not busy, and nothing was transferred before that read.
Gated(tr, from, k) ==
    \E j \in (from + 1) .. (k - 1) :
        /\ NotBusyReadAt(tr, j)
        /\ \A m \in (from + 1) .. j : ~IsTransfer(tr[m])

\* The nibbles strobed by events a..b of the trace, and the bytes they form.
Strobes(tr, a, b) == SelectSeq(SubSeq(tr, a, b), IsStrobe)

Nibble(ev) == LinesOut(ev.pin)

BytesOf(st) ==
    [i \in 1 .. (Len(st) \div 2) |->
        [rs |-> st[2 * i].pin.rs,
         n |-> Nibble(st[2 * i - 1]) * 16 + Nibble(st[2 * i])]]

\* The bytes written during the call in progress (not for lcd_init, whose
\* first four strobes are single nibbles).
BytesSent == BytesOf(Strobes(trace, 1, Len(trace)))

SbEnd == IF sb.to = 0 THEN Len(trace) ELSE sb.to

\* DisplayGeometry: line 1 -> offset 0, line 2 -> offset 0x40.
Offset(row) == IF row = 1 THEN 0 ELSE 64

(***************************************************************************)
(* C1.  Busy-wait gating.  Every nibble strobed by lcd_send_byte is        *)
(* preceded, within that lcd_send_byte, by a read of the command register  *)
(* (register-select 0) that returned bit 7 = 0, and nothing is strobed     *)
(* between the start of the lcd_send_byte and that read.  Likewise the     *)
(* data-register read of lcd_getc is preceded, after its lcd_gotoxy has    *)
(* returned, by a not-busy command-register read with no transfer between  *)
(* the return of lcd_gotoxy and that read.                                 *)
(***************************************************************************)
C1_BusyWaitGating ==
    /\ sb # SbNone =>
          \A k \in (sb.from + 1) .. SbEnd :
              IsStrobe(trace[k]) => Gated(trace, sb.from, k)
    /\ (op.fn = "lcd_getc" /\ sb.to > 0) =>
          \A k \in (sb.to + 1) .. Len(trace) :
              IsDataReadPulse(trace[k]) => Gated(trace, sb.to, k)

\* lcd_getc has returned; both its lcd_send_byte and its own busy-wait saw
\* the controller busy before they saw it ready.
C1_Witness ==
    pc = "ret" /\ op.fn = "lcd_getc" /\ sb.polls = 1 /\ op.i = 1

(***************************************************************************)
(* C2.  Nibble order.  A returned lcd_send_byte(address, n) has strobed    *)
(* exactly two nibbles, both with register-select = address and            *)
(* read/write = write: first n >> 4, then n & 0xF.                         *)
(***************************************************************************)
C2_NibbleOrder ==
    sb.to > 0 =>
        LET st == Strobes(trace, sb.from + 1, sb.to)
        IN /\ Len(st) = 2
           /\ Nibble(st[1]) = sb.n \div 16
           /\ Nibble(st[2]) = sb.n % 16
           /\ \A i \in 1 .. 2 : st[i].pin.rs = sb.address /\ st[i].pin.rw = 0
           /\ st[1].pin.tris = 0 /\ st[2].pin.tris = 0

\* lcd_send_byte(1, 'B') has returned: 0x42, nibbles 4 then 2.
C2_Witness ==
    sb.to > 0 /\ sb.address = 1 /\ sb.n = 66 /\ pc = "sb_ret"

(***************************************************************************)
(* C3.  Address computation.  lcd_gotoxy(x, row) with a valid column and   *)
(* row in {1,2} sends exactly one byte, to the command register, equal to  *)
(* 0x80 | (offset(row) + x - 1).                                           *)
(***************************************************************************)
C3_AddressComputation ==
    (pc = "ret" /\ op.fn = "lcd_gotoxy" /\ ValidPos(op.x, op.y)) =>
        /\ Len(Strobes(trace, 1, Len(trace))) = 2
        /\ BytesSent = << [rs |-> 0, n |-> 128 + Offset(op.y) + op.x - 1] >>

\* lcd_gotoxy(MaxCol, 2) has returned.
C3_Witness ==
    pc = "ret" /\ op.fn = "lcd_gotoxy" /\ op.x = MaxCol /\ op.y = 2

(***************************************************************************)
(* C4.  InvalidCursorPosition (the claim as stated).  lcd_gotoxy or        *)
(* lcd_getc with a row outside {1,2} or a column outside the line strobes  *)
(* nothing onto the bus and leaves the addressed position as it was.       *)
(***************************************************************************)
C4_InvalidPositionRejected ==
    (op.fn \in {"lcd_gotoxy", "lcd_getc"} /\ ~ValidPos(op.x, op.y)) =>
        /\ Strobes(trace, 1, Len(trace)) = << >>
        /\ dev.ac = entry.ac


\* The bytes lcd_init has written after its four single nibbles.
InitBytes == BytesOf(SubSeq(Strobes(trace, 1, Len(trace)), 5, 12))

WakeupEvents ==
    << <<"tris", 0>>, <<"ctl", 0>>, <<"rs", 0>>, <<"rw", 0>>, <<"en", 0>>,
       <<"delay", 15000>>,
       <<"data", 3>>, <<"en", 1>>, <<"delay", 2>>, <<"en", 0>>, <<"delay", 5000>>,
       <<"data", 3>>, <<"en", 1>>, <<"delay", 2>>, <<"en", 0>>, <<"delay", 5000>>,
       <<"data", 3>>, <<"en", 1>>, <<"delay", 2>>, <<"en", 0>>, <<"delay", 5000>>,
       <<"data", 2>>, <<"en", 1>>, <<"delay", 2>>, <<"en", 0>> >>

C6_WakeupSequence ==
    op.fn = "lcd_init" =>
        /\ Len(trace) > Len(WakeupEvents)
        /\ \A i \in 1 .. Len(WakeupEvents) :
              << trace[i].e, trace[i].v >> = WakeupEvents[i]
        /\ trace[5].pin = [rs |-> 0, rw |-> 0, en |-> 0, ctl |-> 0, tris |-> 0,
                           d |-> <<0, 0, 0, 0>>]
        /\ LET st == Strobes(trace, 1, Len(WakeupEvents))
           IN /\ [i \in 1 .. Len(st) |-> Nibble(st[i])] = <<3, 3, 3, 2>>
              /\ \A i \in 1 .. Len(st) : st[i].pin.rs = 0
        /\ \A i \in 1 .. Len(trace) :
              (trace[i].e = "in" \/ trace[i].pin.rw = 1) => i > Len(WakeupEvents)

\* lcd_init stands at the busy-wait of its first lcd_send_byte, on a
\* controller that was busy at power-up.
C6_Witness ==
    /\ op.fn = "lcd_init" /\ pc = "sb_wait" /\ op.i = 0
    /\ Len(trace) = Len(WakeupEvents) + 1 /\ entry.busy

(***************************************************************************)
(* C7.  Initialization is a reset.  Whatever interface state the           *)
(* controller was in, when lcd_init returns it is in 4-bit mode expecting  *)
(* a high nibble, two lines, display on, cursor and blink off, display RAM *)
(* blank and addressed at 0, incrementing without shift: one and the same  *)
(* state for every history.                                                *)
(***************************************************************************)
DevReady ==
    [mode |-> 4, phase |-> 0, hi |-> 0, lo |-> 0, dout |-> 0, busy |-> FALSE,
     ac |-> 0, cg |-> FALSE, id |-> 1, sh |-> 0, disp |-> 1, cur |-> 0,
     blink |-> 0, lines |-> 2, font |-> 0, ddram |-> [a \in DDAddr |-> Blank]]

C7_InitIsReset ==
    (pc = "ret" /\ op.fn = "lcd_init") => [dev EXCEPT !.busy = FALSE] = DevReady

\* lcd_init has returned on a controller that was in 4-bit mode, holding the
\* high nibble 3, with used display RAM and addressing character-generator
\* RAM.
C7_Witness ==
    /\ pc = "ret" /\ op.fn = "lcd_init"
    /\ entry.mode = 4 /\ entry.phase = 1 /\ entry.hi = 3 /\ entry.cg

(***************************************************************************)
(* C8.  Round trip.  lcd_gotoxy(x, y), then lcd_putc(c) with c printable,  *)
(* then lcd_getc(x, y), for a valid position: lcd_getc returns c.          *)
(***************************************************************************)
C8_RoundTrip ==
    (/\ pc = "ret" /\ op.fn = "lcd_getc"
     /\ mon.k = "put" /\ mon.x = op.x /\ mon.y = op.y
     /\ ValidPos(op.x, op.y))
        => op.value = mon.c

\* lcd_getc(MaxCol, 2) has returned after lcd_gotoxy(MaxCol, 2) and
\* lcd_putc('B').
C8_Witness ==
    /\ pc = "ret" /\ op.fn = "lcd_getc"
    /\ mon = [k |-> "put", x |-> MaxCol, y |-> 2, c |-> 66]
    /\ op.x = MaxCol /\ op.y = 2

(***************************************************************************)
(* C9.  Clear.  lcd_putc('\f') sends exactly one byte, 0x01, to the        *)
(* command register and its last act is a delay of 2 ms; on return the     *)
(* display RAM is blank and the addressed position is (1,1), address 0;    *)
(* every lcd_getc at a valid position that follows returns the blank code. *)
(***************************************************************************)
C9_Clear ==
    /\ (pc = "ret" /\ op.fn = "lcd_putc" /\ op.c = FF) =>
          /\ Len(Strobes(trace, 1, Len(trace))) = 2
          /\ BytesSent = << [rs |-> 0, n |-> 1] >>
          /\ trace[Len(trace)].e = "delay" /\ trace[Len(trace)].v >= 2000
          /\ IsStrobe(trace[Len(trace) - 3])
          /\ dev.ac = 0 /\ ~dev.cg
          /\ \A a \in DDAddr : dev.ddram[a] = Blank
    /\ (pc = "ret" /\ op.fn = "lcd_getc" /\ mon.k = "clr"
        /\ ValidPos(op.x, op.y)) => op.value = Blank

\* lcd_getc(1,1) has returned after an lcd_putc('\f') before which cell (1,1)
\* held 'A'.
C9_Witness ==
    /\ pc = "ret" /\ op.fn = "lcd_getc" /\ op.x = 1 /\ op.y = 1
    /\ mon.k = "clr" /\ mon.c = 65

(***************************************************************************)
(* C10.  Newline.  lcd_putc('\n') sends exactly one byte, the              *)
(* cursor-address command for (1,2) (0xC0), to the command register and    *)
(* none to the data register; on return the addressed position is (1,2),   *)
(* address 0x40, and every cell of the display RAM holds what it held.     *)
(***************************************************************************)
C10_Newline ==
    (pc = "ret" /\ op.fn = "lcd_putc" /\ op.c = NL) =>
        /\ Len(Strobes(trace, 1, Len(trace))) = 2
        /\ BytesSent = << [rs |-> 0, n |-> 192] >>
        /\ dev.ac = 64 /\ ~dev.cg
        /\ dev.ddram = entry.ddram

\* lcd_putc('\n') has returned; cell (1,2) held 'A', and the position
\* addressed before was another one whose cell held 'B'.
C10_Witness ==
    /\ pc = "ret" /\ op.fn = "lcd_putc" /\ op.c = NL
    /\ entry.ddram[64] = 65 /\ entry.ac # 64

(***************************************************************************)
(* C11.  Bus-direction restoration.  Every lcd_read_byte floats the data   *)
(* pins before it samples them and drives them again as its last act:      *)
(* every sample is taken with the pins floating, and every float event is  *)
(* followed, nine events later and with both samples in between, by the    *)
(* drive event.  Hence the data pins drive whenever lcd_init, lcd_gotoxy,  *)
(* lcd_putc or lcd_getc has returned, and between the calls that follow:   *)
(* a step that starts with the pins driving, or that touches the pins,     *)
(* ends with the pins driving.                                             *)
(***************************************************************************)
C11_State ==
    /\ (pc = "ret" \/ (pc = "idle" /\ inited)) => pin.tris = 0
    /\ \A k \in 1 .. Len(trace) :
          /\ trace[k].e = "in" => trace[k].pin.tris = 1
          /\ (trace[k].e = "tris" /\ trace[k].v = 1) =>
                /\ k + 9 <= Len(trace)
                /\ trace[k + 3].e = "in" /\ trace[k + 7].e = "in"
                /\ trace[k + 9].e = "tris" /\ trace[k + 9].v = 0
                /\ \A m \in (k + 1) .. (k + 8) : trace[m].e # "tris"

C11_Step == (pin.tris = 0 \/ pin' # pin) => pin'.tris = 0

C11_BusDirection == []C11_State /\ [][C11_Step]_vars

\* lcd_getc has returned: its last lcd_read_byte read the data register.
C11_Witness ==
    /\ pc = "ret" /\ op.fn = "lcd_getc" /\ pin.tris = 0
    /\ trace[Len(trace) - 1].e = "tris" /\ trace[Len(trace) - 3].e = "in"
    /\ trace[Len(trace) - 3].pin.rs = 1

(***************************************************************************)
(* C12.  Blocking busy-wait without timeout.  While lcd_send_byte waits,   *)
(* every read it makes is of the command register and it has strobed       *)
(* nothing; it leaves the loop only on a read with bit 7 = 0.  If the      *)
(* controller stays busy for ever, lcd_send_byte stays in the loop for     *)
(* ever and never strobes; once the controller is not busy, lcd_send_byte  *)
(* returns, having strobed exactly two nibbles.                            *)
(***************************************************************************)
C12_Waiting ==
    /\ pc = "sb_wait" =>
          /\ Strobes(trace, sb.from + 1, Len(trace)) = << >>
          /\ \A k \in (sb.from + 1) .. Len(trace) :
                trace[k].e = "in" => trace[k].pin.rs = 0 /\ trace[k].pin.rw = 1
          /\ \A k \in (sb.from + 1) .. Len(trace) : ~NotBusyReadAt(trace, k)
    /\ pc = "sb_xmit" => NotBusyReadAt(trace, Len(trace) - 2)

C12_Returned ==
    /\ pc = "sb_ret" /\ sb.to > 0
    /\ Len(Strobes(trace, sb.from + 1, sb.to)) = 2

C12_BusyWait ==
    /\ []C12_Waiting
    /\ []((pc = "sb_wait" /\ []dev.busy) => [](pc = "sb_wait"))
    /\ (pc = "sb_wait" /\ ~dev.busy) ~> C12_Returned

\* lcd_send_byte(1, 'A') has returned after more busy answers than the
\* observer records.
C12_Witness ==
    /\ C12_Returned /\ sb.polls = MaxPoll /\ sb.address = 1 /\ sb.n = 65
    /\ Len(SelectSeq(trace, LAMBDA ev : ev.e = "in")) = 2 * (MaxPoll + 1)

(***************************************************************************)
(* C13.  lcd_getc step order.  When lcd_getc(x, y) returns, its events are *)
(* in this order: one byte strobed to the command register (for a valid    *)
(* position the cursor-address command 0x80 | (offset(y) + x - 1)); then   *)
(* reads of the command register only, the last of them with bit 7 = 0;    *)
(* then register-select := 1; then one lcd_read_byte, whose value is the   *)
(* one returned; then register-select := 0, the last event.  Nothing is    *)
(* strobed with register-select = 1, register-select is 0 on return, and   *)
(* the display RAM holds what it held.                                     *)
(***************************************************************************)
C13_GetcOrder ==
    (pc = "ret" /\ op.fn = "lcd_getc") =>
        LET L == Len(trace)
        IN /\ sb.from = 0 /\ sb.to > 0 /\ L >= sb.to + 22
           /\ BytesOf(Strobes(trace, 1, sb.to)) =
                 << [rs |-> 0, n |-> lcd_gotoxy_byte(op.x, op.y)] >>
           /\ ValidPos(op.x, op.y) =>
                 BytesSent = << [rs |-> 0, n |-> 128 + Offset(op.y) + op.x - 1] >>
           /\ \A k \in (sb.to + 1) .. (L - 12) :
                 /\ trace[k].pin.rs = 0 /\ trace[k].e # "rs"
                 /\ ~IsTransfer(trace[k])
           /\ NotBusyReadAt(trace, L - 14)
           /\ trace[L - 11].e = "rs" /\ trace[L - 11].v = 1
           /\ \A k \in (L - 10) .. (L - 1) : trace[k].pin.rs = 1
           /\ trace[L - 10].e = "tris" /\ trace[L - 10].v = 1
           /\ trace[L - 7].e = "in" /\ trace[L - 3].e = "in"
           /\ trace[L - 1].e = "tris" /\ trace[L - 1].v = 0
           /\ op.value = trace[L - 7].v * 16 + trace[L - 3].v
           /\ Len(SelectSeq(trace, LAMBDA ev : ev.e = "in" /\ ev.pin.rs = 1)) = 2
           /\ trace[L].e = "rs" /\ trace[L].v = 0 /\ pin.rs = 0
           /\ \A k \in 1 .. L : IsStrobe(trace[k]) => trace[k].pin.rs = 0
           /\ Len(Strobes(trace, 1, L)) = 2
           /\ dev.ddram = entry.ddram

\* lcd_getc(MaxCol, 2) has returned 'B', after its own busy-wait saw the
\* controller busy once.
C13_Witness ==
    /\ pc = "ret" /\ op.fn = "lcd_getc" /\ op.x = MaxCol /\ op.y = 2
    /\ op.i = 1 /\ op.value = 66

(***************************************************************************)
(* C14.  lcd_putc dispatch.  lcd_putc('\b') strobes exactly one byte, 0x10 *)
(* with register-select = 0, and nothing with register-select = 1.  For    *)
(* every other character c except '\f' and '\n', lcd_putc(c) strobes       *)
(* exactly one byte, c with register-select = 1, and nothing with          *)
(* register-select = 0.  The switch is also checked for all 256 codes.     *)
(***************************************************************************)
C14_PutcDispatch ==
    /\ (pc = "ret" /\ op.fn = "lcd_putc" /\ op.c = BS) =>
          /\ Len(Strobes(trace, 1, Len(trace))) = 2
          /\ BytesSent = << [rs |-> 0, n |-> 16] >>
          /\ \A k \in 1 .. Len(trace) :
                IsStrobe(trace[k]) => trace[k].pin.rs = 0
    /\ (pc = "ret" /\ op.fn = "lcd_putc" /\ op.c \notin {FF, NL, BS}) =>
          /\ Len(Strobes(trace, 1, Len(trace))) = 2
          /\ BytesSent = << [rs |-> 1, n |-> op.c] >>
          /\ \A k \in 1 .. Len(trace) :
                IsStrobe(trace[k]) => trace[k].pin.rs = 1
    /\ op.fn = "lcd_putc" =>
          /\ lcd_putc_send(BS) = << 0, 16 >>
          /\ \A c \in (0 .. 255) \ {FF, NL, BS} : lcd_putc_send(c) = << 1, c >>

\* lcd_putc('\b') has returned on a controller that was still busy with the
\* byte before.
C14_Witness ==
    pc = "ret" /\ op.fn = "lcd_putc" /\ op.c = BS /\ sb.polls = 1

(***************************************************************************)
(* C15.  lcd_read_byte protocol.  Every lcd_read_byte is these ten events: *)
(* data pins float; read/write := 1; Enable := 1; the high nibble is       *)
(* sampled; Enable := 0; Enable := 1; a delay of at least 1 us; the low    *)
(* nibble is sampled; Enable := 0; data pins drive.  Both samples are      *)
(* taken with read/write = 1 and Enable = 1, and Enable is 0 at the end.   *)
(* A sample is the nibble the controller drives, DB4 as bit 0 up to DB7 as *)
(* bit 3, and the value returned is high * 16 + low: a step of a busy-wait *)
(* loop is exactly one lcd_read_byte and stays in the loop exactly when    *)
(* bit 7 of high * 16 + low is set, and the reading step of lcd_getc is    *)
(* register-select := 1, one lcd_read_byte, register-select := 0, and      *)
(* returns high * 16 + low.                                                *)
(***************************************************************************)
IsEvent(ev, e, v) == ev.e = e /\ ev.v = v

\* Events k .. k+9 of tr are one lcd_read_byte.
IsReadByteAt(tr, k) ==
    /\ k + 9 <= Len(tr)
    /\ IsEvent(tr[k], "tris", 1) /\ IsEvent(tr[k + 1], "rw", 1)
    /\ IsEvent(tr[k + 2], "en", 1) /\ tr[k + 3].e = "in"
    /\ IsEvent(tr[k + 4], "en", 0) /\ IsEvent(tr[k + 5], "en", 1)
    /\ tr[k + 6].e = "delay" /\ tr[k + 6].v >= 1
    /\ tr[k + 7].e = "in"
    /\ IsEvent(tr[k + 8], "en", 0) /\ IsEvent(tr[k + 9], "tris", 0)
    /\ tr[k + 3].pin.rw = 1 /\ tr[k + 3].pin.en = 1 /\ tr[k + 3].pin.tris = 1
    /\ tr[k + 7].pin.rw = 1 /\ tr[k + 7].pin.en = 1 /\ tr[k + 7].pin.tris = 1
    /\ tr[k + 3].v \in 0 .. 15 /\ tr[k + 7].v \in 0 .. 15
    /\ tr[k + 9].pin.en = 0 /\ tr[k + 9].pin.rw = 1

\* No sample is taken after event k of tr.
IsLastSample(tr, k) == \A m \in (k + 1) .. Len(tr) : tr[m].e # "in"

C15_State ==
    /\ \A k \in 1 .. Len(trace) :
          /\ (trace[k].e = "tris" /\ trace[k].v = 1) => IsReadByteAt(trace, k)
          /\ trace[k].e = "in" =>
                /\ \/ k > 3 /\ trace[k - 3].e = "tris" /\ trace[k - 3].v = 1
                   \/ k > 7 /\ trace[k - 7].e = "tris" /\ trace[k - 7].v = 1
                /\ IsLastSample(trace, k) => trace[k].v = dev.dout
    /\ (pc = "ret" /\ op.fn = "lcd_getc") =>
          op.value = trace[Len(trace) - 7].v * 16 + trace[Len(trace) - 3].v
    /\ pc \in {"sb_xmit", "getc_read"} =>
          /\ IsReadByteAt(trace, Len(trace) - 9)
          /\ ~lcd_busy(trace[Len(trace) - 6].v * 16 + trace[Len(trace) - 2].v)
          /\ pin.en = 0

C15_Step ==
    LET L == Len(trace)
    IN /\ (pc \in {"sb_wait", "getc_wait"} /\ trace' # trace) =>
             /\ Len(trace') = L + 10
             /\ SubSeq(trace', 1, L) = trace
             /\ IsReadByteAt(trace', L + 1)
             /\ pc' = pc <=> (trace'[L + 4].v * 16 + trace'[L + 8].v) >= 128
       /\ pc = "getc_read" =>
             /\ Len(trace') = L + 12
             /\ SubSeq(trace', 1, L) = trace
             /\ IsEvent(trace'[L + 1], "rs", 1)
             /\ IsReadByteAt(trace', L + 2)
             /\ IsEvent(trace'[L + 12], "rs", 0)
             /\ op'.value = trace'[L + 5].v * 16 + trace'[L + 9].v

C15_ReadByteProtocol == []C15_State /\ [][C15_Step]_vars

\* lcd_getc has returned 'A' (0x41): the high nibble 4 on DB6 alone, the low
\* nibble 1 on DB4 alone.
C15_Witness ==
    /\ pc = "ret" /\ op.fn = "lcd_getc" /\ op.value = 65
    /\ trace[Len(trace) - 7].v = 4 /\ trace[Len(trace) - 3].v = 1

(***************************************************************************)
(* C16.  Write strobes only on a writable bus.  Whenever lcd_send_nibble   *)
(* raises Enable (the event after it has put the nibble on the data pins), *)
(* and until it lowers Enable again, the data pins drive and read/write is *)
(* 0.  This holds for the nibbles of lcd_init and of every lcd_send_byte,  *)
(* also when the call before left read/write = 1: the step of              *)
(* lcd_send_byte that follows the busy-wait strobes two nibbles and leaves *)
(* read/write = 0, Enable = 0 and the data pins driving.                   *)
(***************************************************************************)
IsNibbleEnable(tr, k) ==
    tr[k].e = "en" /\ tr[k].v = 1 /\ k > 1 /\ tr[k - 1].e = "data"

C16_State ==
    \A k \in 1 .. Len(trace) :
        IsNibbleEnable(trace, k) =>
            /\ k + 2 <= Len(trace)
            /\ trace[k + 2].e = "en" /\ trace[k + 2].v = 0
            /\ \A m \in (k - 1) .. (k + 2) :
                  trace[m].pin.tris = 0 /\ trace[m].pin.rw = 0
                     /\ trace[m].pin.ctl = 0

C16_Step ==
    pc = "sb_xmit" =>
        /\ Len(Strobes(trace', Len(trace) + 1, Len(trace'))) = 2
        /\ pin'.rw = 0 /\ pin'.en = 0 /\ pin'.tris = 0

C16_WritableBus == []C16_State /\ [][C16_Step]_vars

\* lcd_putc('B') has returned; it was called with read/write = 1 (left by
\* lcd_getc) and it sat through a busy answer.
C16_Witness ==
    /\ pc = "ret" /\ op.fn = "lcd_putc" /\ op.c = 66
    /\ trace[1].pin.rw = 1 /\ sb.polls = 1
    /\ \E k \in 1 .. Len(trace) : IsNibbleEnable(trace, k)

(***************************************************************************)
(* C17.  Lifecycle of the driver under main.  lcd_init is started at most  *)
(* once; whenever lcd_gotoxy, lcd_putc or lcd_getc is in progress,         *)
(* lcd_init has been started once and has returned; once lcd_init has      *)
(* returned it stays so, no lcd_init is in progress any more, and no step  *)
(* of main or of the driver starts lcd_init (and with it the wake-up       *)
(* nibbles) again.                                                         *)
(***************************************************************************)
C17_Order ==
    /\ app.inits <= 1
    /\ op.fn \in {"lcd_gotoxy", "lcd_putc", "lcd_getc"} =>
          inited /\ app.inits = 1
    /\ op.fn = "lcd_init" => ~inited /\ app.inits = 1
    /\ inited => op.fn # "lcd_init" /\ app.pc > 66
    /\ \A k \in 1 .. Len(trace) :
          (trace[k].e = "ctl" \/ (trace[k].e = "delay" /\ trace[k].v >= 5000))
             => ~inited

C17_Step ==
    /\ inited => inited'
    /\ (op'.fn = "lcd_init" /\ op.fn # "lcd_init") =>
          ~inited /\ app.inits = 0 /\ op.fn = "none"
    /\ app'.inits # app.inits => op'.fn = "lcd_init" /\ app.pc = 66

C17_Lifecycle == []C17_Order /\ [][C17_Step]_vars

\* The loop is in its second authorised scan; lcd_putc is in progress.
C17_Witness ==
    /\ inited /\ app.inits = 1 /\ app.pc = 102 /\ op.fn = "lcd_putc"
    /\ pc = "sb_wait"

(***************************************************************************)
(* C18 (the claim as stated).  Every lcd_gotoxy that main calls has a      *)
(* column >= 1 and a row in {1,2}, and the byte it sends is                *)
(* 0x80 | (offset(row) + column - 1) without wrap-around.                  *)
(***************************************************************************)
C18_MainPositionsValid ==
    op.fn = "lcd_gotoxy" =>
        /\ op.x >= 1 /\ op.y \in {1, 2}
        /\ sb.n = 128 + Offset(op.y) + op.x - 1

(***************************************************************************)
(* C19.  Lock toggling.  QUET_THE returns 1 exactly when the first four    *)
(* bytes of the identifier are the four bytes of the entry; the branch of  *)
(* an authorised card is taken exactly when one of the two entries         *)
(* matches.  At the end of an iteration with an authorised card TAM is     *)
(* flipped and the lock output is 1 if TAM was 0 and 0 if TAM was 1, so    *)
(* it equals the new TAM; at the end of an iteration with a card that is   *)
(* not authorised or could not be read, or without a card, TAM and the     *)
(* lock output are what they were.  TAM and the lock output change in no   *)
(* other statement than lines 96, 105, 107, 117, 126 and 128.              *)
(***************************************************************************)
Authorised(UID) == SubSeq(UID, 1, 4) \in {DATA_TRUNG, DATA_HUY}

IterationEnd ==
    \/ app.pc = 142
    \/ app.pc = LoopHead /\ app.k = 0 /\ app.scan # "none"

C19_State ==
    /\ \A u \in UIDs :
          /\ QUET_THE(DATA_TRUNG, u, 0) = 1 <=> SubSeq(u, 1, 4) = DATA_TRUNG
          /\ QUET_THE(DATA_HUY, u, 1) = 1 <=> SubSeq(u, 1, 4) = DATA_HUY
    /\ (app.scan = "card" /\ app.pc \in 88 .. 141) =>
          /\ app.tt_1 = 1 <=> SubSeq(app.UID, 1, 4) = DATA_TRUNG
          /\ app.tt_2 = 1 <=> SubSeq(app.UID, 1, 4) = DATA_HUY
          /\ app.pc \in 88 .. 131 <=> Authorised(app.UID)
    /\ (IterationEnd /\ app.scan = "card" /\ Authorised(app.UID)) =>
          /\ app.TAM = 1 - app.was.TAM
          /\ app.c1 = (IF app.was.TAM = 0 THEN 1 ELSE 0)
          /\ app.c1 = app.TAM
    /\ (IterationEnd /\ app.scan = "card" /\ ~Authorised(app.UID)) =>
          app.TAM = app.was.TAM /\ app.c1 = app.was.c1
    /\ (IterationEnd /\ app.scan \in {"unread", "nocard"}) =>
          app.TAM = app.was.TAM /\ app.c1 = app.was.c1

C19_Step ==
    /\ app'.TAM # app.TAM => app.pc \in {107, 128}
    /\ app'.c1 # app.c1 => app.pc \in {96, 105, 117, 126}

C19_LockToggle == []C19_State /\ [][C19_Step]_vars

\* The card of the second entry has been scanned while TAM was 1: the
\* iteration ends with TAM 0 and the lock output low.
C19_Witness ==
    /\ app.pc = 142 /\ app.scan = "card" /\ app.was.TAM = 1
    /\ SubSeq(app.UID, 1, 4) = DATA_HUY /\ app.c1 = 0 /\ app.TAM = 0

=============================================================================
